---- MODULE Spec2Model ----
(***************************************************************************)
(* Model of reconcilation.py: synthetic payments and ledger generation,    *)
(* the full outer join on (PaymentID, Merchant), the discrepancy flags and *)
(* the per-merchant summary.                                               *)
(*                                                                         *)
(* Representation.  A PaymentID f"P{n}" is the integer n (1000..9999: four *)
(* digits, so the lexicographic order of the strings is the numeric one);  *)
(* a Merchant f"M{i:03}" is the integer i; a date is its day offset from   *)
(* START_DATE; an amount (a float rounded to 2 decimals) is its number of  *)
(* cents.  NaN / NaT, the pandas missing value, is the integer NaN.        *)
(***************************************************************************)
EXTENDS Integers, Sequences, FiniteSets, TLC

\* ---------------------------------------------------------------------------
\* 1. Parameters & Setup
\* ---------------------------------------------------------------------------
\* NUM_MERCHANTS = 5 in the script; the model runs the script with 2 merchants.
NUM_MERCHANTS == 2
\* NUM_TRANSACTIONS = 200 in the script; the model bounds the number of
\* generated payments.
NUM_TRANSACTIONS == 3
\* DISCREPANCY_RATE = 0.1 in the script, here as a percentage and scaled up: with
\* the bounded transaction count it keeps int(n * rate) >= 2 discrepancies and
\* int(num_discrepancies / 2) >= 1 missing ledger amounts, as 200 * 0.1 does.
DISCREPANCY_RATE_PCT == 70
\* Largest total number of records (payments plus ledger) of an arbitrary input
\* handed to the reconciliation step.
MaxRecords == 3

MERCHANTS == 1..NUM_MERCHANTS

\* np.nan / NaT
NaN == -1

\* Sample of the values random.randint(1000, 9999) can return.
PaymentIDs == {1000, 1001}
\* Sample of the day offsets random.randint(0, (END_DATE - START_DATE).days).
Dates == {0}
\* Sample of round(random.uniform(50, 500), 2), in cents.
PaymentAmounts == {10000, 11000}
\* Sample of the amounts a ledger line can carry, in cents: each is within
\* 20% of every sampled payment amount.
LedgerAmounts == {10000, 11000}

\* round(a * random.uniform(0.8, 1.2), 2): the sampled amounts within
\* [0.8 a, 1.2 a]; a itself is among them (a factor close to 1).
Perturbed(a) == {c \in LedgerAmounts : 8 * a <= 10 * c /\ 10 * c <= 12 * a}

VARIABLES pc, payments_df, ledger_df, recon_df, summary_df

vars == <<pc, payments_df, ledger_df, recon_df, summary_df>>

\* ---------------------------------------------------------------------------
\* Helpers on sequences
\* ---------------------------------------------------------------------------
Range(s) == {s[i] : i \in DOMAIN s}

RECURSIVE SumSeq(_)
SumSeq(s) == IF s = <<>> THEN 0 ELSE Head(s) + SumSeq(Tail(s))

RECURSIVE Concat(_)
Concat(ss) == IF ss = <<>> THEN <<>> ELSE Head(ss) \o Concat(Tail(ss))

\* Lexicographic order on (PaymentID, Merchant) keys.
KeyLess(a, b) == a[1] < b[1] \/ (a[1] = b[1] /\ a[2] < b[2])

RECURSIVE SortKeys(_)
SortKeys(K) ==
    IF K = {} THEN <<>>
    ELSE LET m == CHOOSE x \in K : \A y \in K \ {x} : KeyLess(x, y)
         IN  <<m>> \o SortKeys(K \ {m})

RECURSIVE SortInts(_)
SortInts(S) ==
    IF S = {} THEN <<>>
    ELSE LET m == CHOOSE x \in S : \A y \in S : x <= y
         IN  <<m>> \o SortInts(S \ {m})

Key(r) == <<r.PaymentID, r.Merchant>>

Keys(df) == {Key(df[i]) : i \in DOMAIN df}

\* ---------------------------------------------------------------------------
\* 2. Generate Payments Data
\* ---------------------------------------------------------------------------
PaymentRecords ==
    [PaymentID : PaymentIDs, Merchant : MERCHANTS,
     PaymentDate : Dates, PaymentAmount : PaymentAmounts]

\* One iteration of the loop of generate_payments.
GeneratePayment ==
    /\ pc = "generate_payments"
    /\ Len(payments_df) < NUM_TRANSACTIONS
    /\ \E merchant \in MERCHANTS, date \in Dates,
          amount \in PaymentAmounts, payment_id \in PaymentIDs :
          payments_df' = Append(payments_df,
              [PaymentID |-> payment_id, Merchant |-> merchant,
               PaymentDate |-> date, PaymentAmount |-> amount])
    /\ pc' = IF Len(payments_df) + 1 = NUM_TRANSACTIONS
             THEN "generate_ledger" ELSE "generate_payments"
    /\ UNCHANGED <<ledger_df, recon_df, summary_df>>

\* ---------------------------------------------------------------------------
\* 3. Generate Ledger Data
\* ---------------------------------------------------------------------------
\* int(NUM_TRANSACTIONS * DISCREPANCY_RATE)
num_discrepancies == (NUM_TRANSACTIONS * DISCREPANCY_RATE_PCT) \div 100

\* np.random.choice(index, n, replace=False): the n-element subsets of the index.
Choice(index, n) == {S \in SUBSET index : Cardinality(S) = n}

\* Variant of generate_ledger: a missing ledger entry is a dropped ledger line
\* instead of a NaN amount.
generate_ledger_DropMissing(payments, discrepancy_indices, perturbed, missing_indices) ==
    LET full == [idx \in DOMAIN payments |->
                    [idx          |-> idx,
                     PaymentID    |-> payments[idx].PaymentID,
                     Merchant     |-> payments[idx].Merchant,
                     LedgerDate   |-> payments[idx].PaymentDate,
                     LedgerAmount |->
                        IF idx \in discrepancy_indices THEN perturbed[idx]
                        ELSE payments[idx].PaymentAmount]]
        Kept(r) == r.idx \notin missing_indices
        kept == SelectSeq(full, Kept)
    IN  [i \in DOMAIN kept |->
            [PaymentID |-> kept[i].PaymentID, Merchant |-> kept[i].Merchant,
             LedgerDate |-> kept[i].LedgerDate, LedgerAmount |-> kept[i].LedgerAmount]]

\* generate_ledger(payments_df) for one outcome of its random draws:
\* discrepancy_indices, the perturbed amount drawn for each of them, and
\* missing_indices.  The NaN assignment comes after the perturbation loop, so
\* an index in both ends up NaN.
generate_ledger(payments, discrepancy_indices, perturbed, missing_indices) ==
    [idx \in DOMAIN payments |->
        [PaymentID    |-> payments[idx].PaymentID,
         Merchant     |-> payments[idx].Merchant,
         LedgerDate   |-> payments[idx].PaymentDate,
         LedgerAmount |->
            IF idx \in missing_indices THEN NaN
            ELSE IF idx \in discrepancy_indices THEN perturbed[idx]
            ELSE payments[idx].PaymentAmount]]

GenerateLedger ==
    /\ pc = "generate_ledger"
    /\ \E discrepancy_indices \in Choice(DOMAIN payments_df, num_discrepancies) :
       \E perturbed \in [discrepancy_indices -> LedgerAmounts] :
       \E missing_indices \in Choice(DOMAIN payments_df, num_discrepancies \div 2) :
          /\ \A idx \in discrepancy_indices :
                perturbed[idx] \in Perturbed(payments_df[idx].PaymentAmount)
          /\ ledger_df' = generate_ledger(payments_df, discrepancy_indices,
                                          perturbed, missing_indices)
    /\ pc' = "reconcile"
    /\ UNCHANGED <<payments_df, recon_df, summary_df>>

\* ---------------------------------------------------------------------------
\* 4. Reconciliation (Full Outer Join)
\* ---------------------------------------------------------------------------
\* The rows of df whose (PaymentID, Merchant) is k, in df's order.
Matching(df, k) ==
    LET Test(r) == Key(r) = k
    IN  SelectSeq(df, Test)

\* A merged row: a payments row p and a ledger row l with the same key.
Both(p, l) ==
    [PaymentID |-> p.PaymentID, Merchant |-> p.Merchant,
     PaymentDate |-> p.PaymentDate, PaymentAmount |-> p.PaymentAmount,
     LedgerDate |-> l.LedgerDate, LedgerAmount |-> l.LedgerAmount]

\* A payments row whose key the ledger lacks: the ledger columns are NaN.
LeftOnly(p) ==
    [PaymentID |-> p.PaymentID, Merchant |-> p.Merchant,
     PaymentDate |-> p.PaymentDate, PaymentAmount |-> p.PaymentAmount,
     LedgerDate |-> NaN, LedgerAmount |-> NaN]

\* A ledger row whose key the payments lack: the payment columns are NaN.
RightOnly(l) ==
    [PaymentID |-> l.PaymentID, Merchant |-> l.Merchant,
     PaymentDate |-> NaN, PaymentAmount |-> NaN,
     LedgerDate |-> l.LedgerDate, LedgerAmount |-> l.LedgerAmount]

\* Variant of MergeKey: a lookup table keyed by (PaymentID, Merchant) built from
\* the ledger, where a later ledger row of a key replaces the earlier one.
MergeKey_LastWins(payments, ledger, k) ==
    LET lrows == Matching(payments, k)
        rrows == Matching(ledger, k)
    IN  IF rrows = <<>> THEN [i \in 1..Len(lrows) |-> LeftOnly(lrows[i])]
        ELSE IF lrows = <<>> THEN <<RightOnly(rrows[Len(rrows)])>>
        ELSE [i \in 1..Len(lrows) |-> Both(lrows[i], rrows[Len(rrows)])]

\* The rows the join emits for key k: every pairing of a payments row with a
\* ledger row of that key, or the rows of the one side that has the key.
MergeKey(payments, ledger, k) ==
    LET lrows == Matching(payments, k)
        rrows == Matching(ledger, k)
    IN  IF rrows = <<>> THEN [i \in 1..Len(lrows) |-> LeftOnly(lrows[i])]
        ELSE IF lrows = <<>> THEN [j \in 1..Len(rrows) |-> RightOnly(rrows[j])]
        ELSE Concat([i \in 1..Len(lrows) |->
                        [j \in 1..Len(rrows) |-> Both(lrows[i], rrows[j])]])

\* Variant of Merge: how='left', the keys of the payments only.
Merge_Left(payments, ledger) ==
    LET ks == SortKeys(Keys(payments))
    IN  Concat([n \in 1..Len(ks) |-> MergeKey(payments, ledger, ks[n])])

\* payments.merge(ledger, on=['PaymentID', 'Merchant'], how='outer'):
\* the union of the keys, sorted lexicographically.
Merge(payments, ledger) ==
    LET ks == SortKeys(Keys(payments) \cup Keys(ledger))
    IN  Concat([n \in 1..Len(ks) |-> MergeKey(payments, ledger, ks[n])])

\* Series.isna()
isna(x) == x = NaN

\* Series != Series: NaN is unequal to everything, itself included.
ne(x, y) == isna(x) \/ isna(y) \/ x # y

MissingPayment(row) == isna(row.PaymentAmount)

\* Variant of MissingLedger: tests the ledger date, which is NaT exactly when
\* the ledger has no line for the key.
MissingLedger_ByDate(row) == isna(row.LedgerDate)

MissingLedger(row) == isna(row.LedgerAmount)

\* Variant of AmountMismatch: the bare comparison, without the two guards.
AmountMismatch_Unguarded(row) == ne(row.PaymentAmount, row.LedgerAmount)

\* Reads the two flag columns set before it.
AmountMismatch(row) ==
    ~row.MissingPayment /\ ~row.MissingLedger
        /\ ne(row.PaymentAmount, row.LedgerAmount)

\* Variant of Discrepancy: the amount mismatch column left out of the any().
Discrepancy_MissingOnly(row) == row.MissingPayment \/ row.MissingLedger

\* [['MissingPayment', 'MissingLedger', 'AmountMismatch']].any(axis=1)
Discrepancy(row) == row.MissingPayment \/ row.MissingLedger \/ row.AmountMismatch

\* The four column assignments, in the script's order, on one merged row.
Flagged(row) ==
    LET r1 == row @@ [MissingPayment |-> MissingPayment(row)]
        r2 == r1 @@ [MissingLedger |-> MissingLedger(r1)]
        r3 == r2 @@ [AmountMismatch |-> AmountMismatch(r2)]
    IN  r3 @@ [Discrepancy |-> Discrepancy(r3)]

reconcile(payments, ledger) ==
    LET merged == Merge(payments, ledger)
    IN  [i \in DOMAIN merged |-> Flagged(merged[i])]

Reconcile ==
    /\ pc = "reconcile"
    /\ recon_df' = reconcile(payments_df, ledger_df)
    /\ pc' = "summarize"
    /\ UNCHANGED <<payments_df, ledger_df, summary_df>>

\* ---------------------------------------------------------------------------
\* 5. Summary for Dashboard
\* ---------------------------------------------------------------------------
\* Variant of AggSum: skipna=False, one NaN makes the sum NaN.
AggSum_NoSkipna(group, col) ==
    IF \E i \in DOMAIN group : group[i][col] = NaN THEN NaN
    ELSE SumSeq([i \in DOMAIN group |-> group[i][col]])

\* agg 'sum' of a numeric column: NaN is skipped.
AggSum(group, col) ==
    SumSeq([i \in DOMAIN group |->
               IF isna(group[i][col]) THEN 0 ELSE group[i][col]])

\* Variant of AggCount: the count taken on the PaymentAmount column, whatever
\* column is asked for.
AggCount_PaymentAmount(group, col) ==
    SumSeq([i \in DOMAIN group |-> IF group[i].PaymentAmount = NaN THEN 0 ELSE 1])

\* agg 'count': the number of non-null values of the column.
AggCount(group, col) ==
    SumSeq([i \in DOMAIN group |-> IF isna(group[i][col]) THEN 0 ELSE 1])

\* agg 'sum' of a boolean column: the number of True values.
AggSumBool(group, col) ==
    SumSeq([i \in DOMAIN group |-> IF group[i][col] THEN 1 ELSE 0])

\* (NumDiscrepancies / NumTransactions) * 100, kept as the exact fraction
\* num / den; 0 / 0 is NaN in pandas.
DiscrepancyPct(NumDiscrepancies, NumTransactions) ==
    IF NumTransactions = 0 THEN [num |-> NaN, den |-> NaN]
    ELSE [num |-> NumDiscrepancies * 100, den |-> NumTransactions]

SummaryRow(rows, m) ==
    LET InGroup(r) == r.Merchant = m
        group == SelectSeq(rows, InGroup)
        nt == AggCount(group, "PaymentID")
        nd == AggSumBool(group, "Discrepancy")
    IN  [Merchant             |-> m,
         TotalPayments        |-> AggSum(group, "PaymentAmount"),
         TotalLedger          |-> AggSum(group, "LedgerAmount"),
         NumTransactions      |-> nt,
         NumDiscrepancies     |-> nd,
         MissingPayments      |-> AggSumBool(group, "MissingPayment"),
         MissingLedgerEntries |-> AggSumBool(group, "MissingLedger"),
         AmountMismatches     |-> AggSumBool(group, "AmountMismatch"),
         DiscrepancyPct       |-> DiscrepancyPct(nd, nt)]

\* groupby('Merchant').agg(...).reset_index(): one row per merchant present,
\* in ascending merchant order.
summarize(rows) ==
    LET ms == SortInts({rows[i].Merchant : i \in DOMAIN rows})
    IN  [n \in 1..Len(ms) |-> SummaryRow(rows, ms[n])]

Summarize ==
    /\ pc = "summarize"
    /\ summary_df' = summarize(recon_df)
    /\ pc' = "done"
    /\ UNCHANGED <<payments_df, ledger_df, recon_df>>

\* ---------------------------------------------------------------------------
\* 6. Output CSVs for Power BI: to_csv writes the four frames and changes none
\* of them, so the script's state at "done" is its final state.
\* ---------------------------------------------------------------------------

\* ---------------------------------------------------------------------------
\* Specifications
\* ---------------------------------------------------------------------------
\* The script as wired: payments are generated, the ledger is derived from them.
Init ==
    /\ pc = "generate_payments"
    /\ payments_df = <<>>
    /\ ledger_df = <<>>
    /\ recon_df = <<>>
    /\ summary_df = <<>>

Next == GeneratePayment \/ GenerateLedger \/ Reconcile \/ Summarize

Spec == Init /\ [][Next]_vars

\* The reconciliation and summary steps on arbitrary payments and ledger frames.
LedgerRecords ==
    [PaymentID : PaymentIDs, Merchant : MERCHANTS,
     LedgerDate : Dates, LedgerAmount : LedgerAmounts \cup {NaN}]

SeqsOfLen(S, n) == [1..n -> S]

InitRecon ==
    /\ pc = "reconcile"
    /\ \E np \in 0..MaxRecords : \E nl \in 0..(MaxRecords - np) :
          /\ payments_df \in SeqsOfLen(PaymentRecords, np)
          /\ ledger_df \in SeqsOfLen(LedgerRecords, nl)
    /\ recon_df = <<>>
    /\ summary_df = <<>>

NextRecon == Reconcile \/ Summarize

SpecRecon == InitRecon /\ [][NextRecon]_vars

\* ---------------------------------------------------------------------------
\* Properties
\* ---------------------------------------------------------------------------
\* recon_df holds the reconciliation of payments_df and ledger_df.
Reconciled == pc \in {"summarize", "done"}

\* summary_df holds the summary of recon_df.
Summarized == pc = "done"

AllKeys == Keys(payments_df) \cup Keys(ledger_df)

\* The number of rows of df with key k.
Count(df, k) == Cardinality({i \in DOMAIN df : Key(df[i]) = k})

\* The sum of f over the finite index set I.
RECURSIVE SumOver(_, _)
SumOver(I, f) ==
    IF I = {} THEN 0
    ELSE LET i == CHOOSE x \in I : TRUE IN f[i] + SumOver(I \ {i}, f)

\* The reorderings of the sequence s.
Reorderings(s) ==
    {[i \in DOMAIN s |-> s[f[i]]] :
        f \in {g \in [DOMAIN s -> DOMAIN s] : \A i \in DOMAIN s : \E j \in DOMAIN s : g[j] = i}}

\* C1: the reconciliation emits exactly one row per distinct (PaymentID,
\* Merchant) key: as many rows as there are keys in payments or ledger, and no
\* two rows with the same key.
C1_OneRowPerKey ==
    Reconciled =>
        /\ Len(recon_df) = Cardinality(AllKeys)
        /\ \A i, j \in DOMAIN recon_df :
              i # j => Key(recon_df[i]) # Key(recon_df[j])

\* C2 as stated: a row's MissingLedger is true exactly when its key is not in
\* the ledger, a ledger line with a null amount included, and MissingPayment
\* exactly when its key is not in the payments.
C2_MissingIffKeyAbsent ==
    Reconciled =>
        \A i \in DOMAIN recon_df :
            /\ recon_df[i].MissingLedger <=> Key(recon_df[i]) \notin Keys(ledger_df)
            /\ recon_df[i].MissingPayment <=> Key(recon_df[i]) \notin Keys(payments_df)

\* C2 as amended: MissingPayment is true exactly when the key is not in the
\* payments; MissingLedger is true exactly when the row's ledger amount is
\* absent, that is when the key is not in the ledger or the ledger line joined
\* into the row carries a null amount.
C2_MissingIffAmountAbsent ==
    Reconciled =>
        \A i \in DOMAIN recon_df :
            LET row == recon_df[i]
                NullLine(l) == /\ Key(l) = Key(row)
                               /\ l.LedgerAmount = NaN
                               /\ l.LedgerAmount = row.LedgerAmount
                               /\ l.LedgerDate = row.LedgerDate
                ValueLine(l) == /\ Key(l) = Key(row)
                                /\ l.LedgerAmount # NaN
                                /\ l.LedgerAmount = row.LedgerAmount
                                /\ l.LedgerDate = row.LedgerDate
            IN  /\ row.MissingPayment <=> Key(row) \notin Keys(payments_df)
                /\ row.MissingLedger <=>
                      \/ Key(row) \notin Keys(ledger_df)
                      \/ \E j \in DOMAIN ledger_df : NullLine(ledger_df[j])
                /\ ~row.MissingLedger =>
                      \E j \in DOMAIN ledger_df : ValueLine(ledger_df[j])

\* A row flagged MissingLedger whose key the ledger has (with a null amount),
\* next to a row whose key the payments lack.
C2_Witness ==
    /\ Reconciled
    /\ \E i \in DOMAIN recon_df :
          recon_df[i].MissingLedger /\ Key(recon_df[i]) \in Keys(ledger_df)
    /\ \E i \in DOMAIN recon_df : recon_df[i].MissingPayment
    /\ \E i \in DOMAIN recon_df : ~recon_df[i].MissingLedger

\* C3: a key that occurs more than once on a side is not silently merged: the
\* reconciliation never holds, for a key with k payments rows and j ledger
\* rows, the k x j pairings of those rows.
C3_NoMultiplicityExpansion ==
    Reconciled =>
        \A k \in AllKeys :
            (Count(payments_df, k) >= 2 \/ Count(ledger_df, k) >= 2) =>
                ~ /\ Count(payments_df, k) >= 1
                  /\ Count(ledger_df, k) >= 1
                  /\ Count(recon_df, k) = Count(payments_df, k) * Count(ledger_df, k)

\* C4: AmountMismatch is true exactly when MissingPayment and MissingLedger are
\* false and the two amounts differ; it is never true together with either.
C4_AmountMismatch ==
    Reconciled =>
        \A i \in DOMAIN recon_df :
            LET row == recon_df[i]
            IN  /\ row.AmountMismatch <=>
                      /\ ~row.MissingPayment
                      /\ ~row.MissingLedger
                      /\ row.PaymentAmount # row.LedgerAmount
                /\ ~(row.AmountMismatch /\ (row.MissingPayment \/ row.MissingLedger))

\* A mismatched row next to a row with a missing side.
C4_Witness ==
    /\ Reconciled
    /\ \E i \in DOMAIN recon_df : recon_df[i].AmountMismatch
    /\ \E i \in DOMAIN recon_df :
          recon_df[i].MissingPayment \/ recon_df[i].MissingLedger

\* C5: Discrepancy is true exactly when one of MissingPayment, MissingLedger,
\* AmountMismatch is; a row whose key is on both sides with equal, present
\* amounts has the four flags false.
C5_Discrepancy ==
    Reconciled =>
        \A i \in DOMAIN recon_df :
            LET row == recon_df[i]
            IN  /\ row.Discrepancy <=>
                      row.MissingPayment \/ row.MissingLedger \/ row.AmountMismatch
                /\ ( /\ Key(row) \in Keys(payments_df) \cap Keys(ledger_df)
                     /\ row.PaymentAmount # NaN
                     /\ row.LedgerAmount # NaN
                     /\ row.PaymentAmount = row.LedgerAmount )
                   => ( /\ ~row.MissingPayment /\ ~row.MissingLedger
                        /\ ~row.AmountMismatch /\ ~row.Discrepancy )

\* A clean row next to a row that is discrepant by its amounts alone.
C5_Witness ==
    /\ Reconciled
    /\ \E i \in DOMAIN recon_df : ~recon_df[i].Discrepancy
    /\ \E i \in DOMAIN recon_df :
          /\ recon_df[i].Discrepancy
          /\ ~recon_df[i].MissingPayment
          /\ ~recon_df[i].MissingLedger

\* C6: no loss: every payments record has a reconciled row with its key and
\* its PaymentAmount, every ledger record a reconciled row with its key and
\* its LedgerAmount (a null amount stays null).
C6_NoLoss ==
    Reconciled =>
        /\ \A i \in DOMAIN payments_df :
              \E n \in DOMAIN recon_df :
                  /\ Key(recon_df[n]) = Key(payments_df[i])
                  /\ recon_df[n].PaymentAmount = payments_df[i].PaymentAmount
        /\ \A j \in DOMAIN ledger_df :
              \E n \in DOMAIN recon_df :
                  /\ Key(recon_df[n]) = Key(ledger_df[j])
                  /\ recon_df[n].LedgerAmount = ledger_df[j].LedgerAmount

\* A key only in the payments, a key only in the ledger.
C6_Witness ==
    /\ Reconciled
    /\ Keys(payments_df) \ Keys(ledger_df) # {}
    /\ Keys(ledger_df) \ Keys(payments_df) # {}

\* C7: each merchant of the reconciled rows has exactly one summary row, whose
\* NumTransactions is the number of that merchant's rows and whose
\* TotalPayments and TotalLedger are the sums of the present PaymentAmount and
\* LedgerAmount of those rows.
C7_Aggregation ==
    Summarized =>
        LET rowsOf(m) == {i \in DOMAIN recon_df : recon_df[i].Merchant = m}
            present(col) == [i \in DOMAIN recon_df |->
                                IF recon_df[i][col] = NaN THEN 0 ELSE recon_df[i][col]]
        IN  /\ \A m \in {recon_df[i].Merchant : i \in DOMAIN recon_df} :
                  /\ Cardinality({n \in DOMAIN summary_df : summary_df[n].Merchant = m}) = 1
                  /\ \A n \in DOMAIN summary_df :
                        summary_df[n].Merchant = m =>
                            /\ summary_df[n].NumTransactions = Cardinality(rowsOf(m))
                            /\ summary_df[n].TotalPayments
                                  = SumOver(rowsOf(m), present("PaymentAmount"))
                            /\ summary_df[n].TotalLedger
                                  = SumOver(rowsOf(m), present("LedgerAmount"))
            /\ \A n \in DOMAIN summary_df : rowsOf(summary_df[n].Merchant) # {}

\* Two merchants summarised, one of them with an absent and a present ledger
\* amount among its rows.
C7_Witness ==
    /\ Summarized
    /\ Len(summary_df) >= 2
    /\ \E i, j \in DOMAIN recon_df :
          /\ recon_df[i].Merchant = recon_df[j].Merchant
          /\ recon_df[i].LedgerAmount = NaN
          /\ recon_df[j].LedgerAmount # NaN

\* C8: every summary row has NumTransactions >= 1, NumDiscrepancies <=
\* NumTransactions and DiscrepancyPct = 100 * NumDiscrepancies /
\* NumTransactions within [0, 100], the divisor never zero; 2 transactions
\* with 1 discrepancy give 50.
C8_DiscrepancyPct ==
    Summarized =>
        \A n \in DOMAIN summary_df :
            LET s == summary_df[n]
                pct == s.DiscrepancyPct
            IN  /\ s.NumTransactions >= 1
                /\ s.NumDiscrepancies >= 0
                /\ s.NumDiscrepancies <= s.NumTransactions
                /\ pct.den >= 1
                /\ pct.num * s.NumTransactions = 100 * s.NumDiscrepancies * pct.den
                /\ 0 <= pct.num /\ pct.num <= 100 * pct.den
                /\ (s.NumTransactions = 2 /\ s.NumDiscrepancies = 1)
                      => pct.num = 50 * pct.den

\* A merchant with 2 transactions and 1 discrepancy, a row without payment.
C8_Witness ==
    /\ Summarized
    /\ \E n \in DOMAIN summary_df :
          /\ summary_df[n].NumTransactions = 2
          /\ summary_df[n].NumDiscrepancies = 1
          /\ summary_df[n].MissingPayments = 1

\* C9: the join does not depend on the order of its inputs: for every
\* reordering of the payments and of the ledger, the set of reconciled rows,
\* flags included, is the same, and so are the merchant summaries.
C9_OrderIndependence ==
    Summarized =>
        \A P \in Reorderings(payments_df), L \in Reorderings(ledger_df) :
            LET rows == reconcile(P, L)
            IN  /\ Range(rows) = Range(recon_df)
                /\ Range(summarize(rows)) = Range(summary_df)

\* Inputs whose reorderings differ from them, one with a key twice in the
\* ledger under different amounts.
C9_Witness ==
    /\ Summarized
    /\ \E i, j \in DOMAIN ledger_df :
          /\ i # j
          /\ Key(ledger_df[i]) = Key(ledger_df[j])
          /\ ledger_df[i].LedgerAmount # ledger_df[j].LedgerAmount
    /\ Keys(payments_df) \cap Keys(ledger_df) # {}

\* C10: in the script as wired the ledger has one line per payments record,
\* with its key, so both sides have the same keys; no reconciled row has
\* MissingPayment, MissingPayments is 0 for every merchant, a discrepant row is
\* a MissingLedger row or an AmountMismatch row and never both, and
\* NumDiscrepancies = MissingLedgerEntries + AmountMismatches per merchant.
C10_WiredPipeline ==
    /\ pc \in {"reconcile", "summarize", "done"} =>
          /\ Len(ledger_df) = Len(payments_df)
          /\ \A i \in DOMAIN payments_df : Key(ledger_df[i]) = Key(payments_df[i])
          /\ Keys(ledger_df) = Keys(payments_df)
    /\ Reconciled =>
          \A i \in DOMAIN recon_df :
              /\ ~recon_df[i].MissingPayment
              /\ recon_df[i].Discrepancy =>
                    (recon_df[i].MissingLedger # recon_df[i].AmountMismatch)
    /\ Summarized =>
          \A n \in DOMAIN summary_df :
              /\ summary_df[n].MissingPayments = 0
              /\ summary_df[n].NumDiscrepancies
                    = summary_df[n].MissingLedgerEntries + summary_df[n].AmountMismatches

\* A run of the script with a missing ledger amount and an amount mismatch.
C10_Witness ==
    /\ Summarized
    /\ \E i \in DOMAIN recon_df : recon_df[i].MissingLedger
    /\ \E i \in DOMAIN recon_df : recon_df[i].AmountMismatch

====
